---- MODULE Spec2Model ----
(***************************************************************************)
(* A model of the ym JSON reader: the character-level Tokenizer of         *)
(* src/token.rs and the recursive-descent Deserializer of src/de.rs.       *)
(*                                                                         *)
(* A text is a sequence of characters, each character a one-character      *)
(* string.  The tokenizer's cursor (`chars`, a CharIndices iterator in the *)
(* source) is the number of characters already consumed.  Every function   *)
(* of the source is an operator over (s, p): the text and the cursor at    *)
(* entry; it returns what the function returns together with the cursor    *)
(* at exit.                                                                *)
(***************************************************************************)
EXTENDS Integers, Sequences, FiniteSets, TLC

VARIABLES
    input,   \* the &str handed to Deserializer::new / Tokenizer::new
    chars,   \* Tokenizer.chars: how many characters have been consumed
    op,      \* the public function called last ("new" after construction)
    start,   \* the cursor when that call began
    ret      \* what that call returned

vars == <<input, chars, op, start, ret>>

----------------------------------------------------------------------------
(* Characters *)

QUOTE == "\""
BACKSLASH == "\\"
LF == "\n"
CR == "\r"
TAB == "\t"
FF == "\f"
\* U+0008 has no escape in a TLA+ string; it is named.
BS == "U+0008"
\* peek() at the end of the text.
NONE == "None"

Digits == {"0", "1", "2", "3", "4", "5", "6", "7", "8", "9"}

\* char::is_digit(10)
is_digit(c) == c \in Digits

----------------------------------------------------------------------------
(* Token, Value, Result *)

Token(type, val) == [type |-> type, val |-> val]

LeftBracket == Token("LeftBracket", <<>>)
RightBracket == Token("RightBracket", <<>>)
LeftBrace == Token("LeftBrace", <<>>)
RightBrace == Token("RightBrace", <<>>)
Comma == Token("Comma", <<>>)
Colon == Token("Colon", <<>>)
Null == Token("Null", <<>>)

\* Token::to_char: the character of a structural token, NONE for the others.
to_char(token) ==
    CASE token.type = "LeftBracket" -> "["
      [] token.type = "RightBracket" -> "]"
      [] token.type = "LeftBrace" -> "{"
      [] token.type = "RightBrace" -> "}"
      [] token.type = "Comma" -> ","
      [] token.type = "Colon" -> ":"
      [] OTHER -> NONE

\* de::Value, tagged like Token: Object (a map from key to Value), Array (a
\* sequence of Values), String and Number (text), Bool, Null.
Value(type, val) == [type |-> type, val |-> val]

\* Ok(Some(v)) with the cursor at exit.
Ok(v, p) == [ok |-> TRUE, val |-> v, err |-> "None", pos |-> p]

\* Err(e) with the cursor at exit.
Err(e, p) == [ok |-> FALSE, val |-> <<>>, err |-> e, pos |-> p]

\* A bool-returning function's result with the cursor at exit.
Flag(b, p) == [hit |-> b, pos |-> p]

\* The outcome of one iteration of a loop: Leave when the iteration returns
\* or breaks with the result res, Again when it reaches the end of the loop
\* body with the cursor at p and the loop's local state acc.
Leave(res) == [done |-> TRUE, res |-> res, pos |-> res.pos, acc |-> <<>>]
Again(p, acc) == [done |-> FALSE, res |-> <<>>, pos |-> p, acc |-> acc]

----------------------------------------------------------------------------
(* Tokenizer: the cursor primitives *)

\* self.chars.clone().next()
peek(s, p) == IF p < Len(s) THEN s[p + 1] ELSE NONE

\* self.chars.next(): the cursor after consuming one character, if any.
one(s, p) == IF p < Len(s) THEN p + 1 ELSE p

eat_one(s, p) == Flag(p < Len(s), one(s, p))

eatc(s, p, c) ==
    IF peek(s, p) # NONE /\ peek(s, p) = c
    THEN Flag(TRUE, eat_one(s, p).pos)
    ELSE Flag(FALSE, p)

eat_token(s, p, token) ==
    IF to_char(token) # NONE THEN eatc(s, p, to_char(token)) ELSE Flag(FALSE, p)

\* The first loop of eats: how many characters of str a cloned iterator
\* matches from cursor q on, i counting the characters of str tried so far;
\* -1 when one differs or the text ends first.
RECURSIVE eats_scan(_, _, _, _)
eats_scan(s, q, str, i) ==
    IF i = Len(str) THEN i
    ELSE IF q < Len(s) /\ s[q + 1] = str[i + 1]
         THEN eats_scan(s, q + 1, str, i + 1)
         ELSE -1

\* The second loop of eats: i calls of one().
RECURSIVE advance(_, _, _)
advance(s, p, i) == IF i = 0 THEN p ELSE advance(s, one(s, p), i - 1)

\* How many leading characters of str the text matches from cursor q on.
RECURSIVE eats_matched(_, _, _, _)
eats_matched(s, q, str, i) ==
    IF i < Len(str) /\ q < Len(s) /\ s[q + 1] = str[i + 1]
    THEN eats_matched(s, q + 1, str, i + 1)
    ELSE i

\* An eats that compares on the tokenizer's own iterator: on a mismatch the
\* characters that matched stay consumed.
eats_consuming(s, p, str) ==
    LET i == eats_matched(s, p, str, 0) IN
    Flag(i = Len(str), advance(s, p, i))

eats(s, p, str) ==
    LET i == eats_scan(s, p, str, 0) IN
    IF i < 0 THEN Flag(FALSE, p) ELSE Flag(TRUE, advance(s, p, i))

eat_whitespace(s, p) ==
    IF eatc(s, p, " ").hit THEN eatc(s, p, " ")
    ELSE IF eatc(s, p, LF).hit THEN eatc(s, p, LF)
    ELSE IF eatc(s, p, CR).hit THEN eatc(s, p, CR)
    ELSE eatc(s, p, TAB)

\* while self.eat_whitespace() {}
RECURSIVE eat_whitespace_loop(_, _)
eat_whitespace_loop(s, p) ==
    LET w == eat_whitespace(s, p) IN
    IF w.hit THEN eat_whitespace_loop(s, w.pos) ELSE p

eat_whitespaces(s, p) ==
    LET w == eat_whitespace(s, p) IN
    IF ~w.hit THEN Flag(FALSE, p) ELSE Flag(TRUE, eat_whitespace_loop(s, w.pos))

----------------------------------------------------------------------------
(* Tokenizer: strings *)

\* A string() that copies the character after a backslash instead of the
\* character it denotes.
escape_verbatim(c) ==
    IF c \in {QUOTE, BACKSLASH, "/", "b", "f", "n", "r", "t"} THEN c ELSE NONE

\* The escape arms of string(): the character pushed for the character
\* after a backslash, NONE for the catch-all arm (which also takes the end
\* of the text).
escape(c) ==
    CASE c = QUOTE -> QUOTE
      [] c = BACKSLASH -> BACKSLASH
      [] c = "/" -> "/"
      [] c = "b" -> BS
      [] c = "f" -> FF
      [] c = "n" -> LF
      [] c = "r" -> CR
      [] c = "t" -> TAB
      [] OTHER -> NONE

\* One iteration of the loop of string(), val the text pushed so far.
string_iter(s, p, val) ==
    LET c == peek(s, p) IN
    IF c = BACKSLASH THEN
        LET p1 == one(s, p)
            e == IF peek(s, p1) = NONE THEN NONE ELSE escape(peek(s, p1))
        IN  IF e = NONE THEN Leave(Err("InvalidEscapeChar", p1))
            ELSE Again(one(s, p1), Append(val, e))
    ELSE IF c = QUOTE THEN Leave(Ok(Token("String", val), one(s, p)))
    ELSE IF c # NONE THEN Again(one(s, p), Append(val, c))
    ELSE Leave(Err("EOF", p))

\* The loop of string(): after the iteration i, its result or the next
\* iteration.
RECURSIVE string_loop(_, _, _)
string_after(s, i) == IF i.done THEN i.res ELSE string_loop(s, i.pos, i.acc)

string_loop(s, p, val) == string_after(s, string_iter(s, p, val))

string(s, p) ==
    IF peek(s, p) = QUOTE THEN string_loop(s, one(s, p), <<>>)
    ELSE Err("InvalidString", p)

----------------------------------------------------------------------------
(* Tokenizer: numbers *)

\* One iteration of the digit loop of integer().
integer_iter(s, p, val) ==
    LET c == peek(s, p) IN
    IF c # NONE /\ is_digit(c)
    THEN Again(eat_one(s, p).pos, Append(val, c))
    ELSE Leave(Ok(Token("Integer", val), p))

\* The digit loop of integer(): after the iteration i, its result or the next
\* iteration.
RECURSIVE integer_loop(_, _, _)
integer_after(s, i) == IF i.done THEN i.res ELSE integer_loop(s, i.pos, i.acc)

integer_loop(s, p, val) == integer_after(s, integer_iter(s, p, val))

integer(s, p) ==
    LET minus == peek(s, p) = "-"
        p1 == IF minus THEN eat_one(s, p).pos ELSE p
        val == IF minus THEN <<"-">> ELSE <<>>
    IN  IF peek(s, p1) = "0"
        THEN Ok(Token("Integer", Append(val, "0")), eat_one(s, p1).pos)
        ELSE integer_loop(s, p1, val)

\* One iteration of the digit loop of fraction().
fraction_iter(s, p, val) ==
    LET c == peek(s, p) IN
    IF c # NONE /\ is_digit(c)
    THEN Again(eat_one(s, p).pos, Append(val, c))
    ELSE Leave(Ok(Token("Fraction", val), p))

\* The digit loop of fraction(): after the iteration i, its result or the next
\* iteration.
RECURSIVE fraction_loop(_, _, _)
fraction_after(s, i) == IF i.done THEN i.res ELSE fraction_loop(s, i.pos, i.acc)

fraction_loop(s, p, val) == fraction_after(s, fraction_iter(s, p, val))

\* The first character is checked only when there is one: at the end of the
\* text the `if let Some` is skipped and the loop breaks at once.
fraction(s, p) ==
    LET c == peek(s, p) IN
    IF c # NONE
    THEN IF is_digit(c)
         THEN fraction_loop(s, one(s, p), <<c>>)
         ELSE Err("InvalidNumber", p)
    ELSE fraction_loop(s, p, <<>>)

exponent(s, p) ==
    LET c == peek(s, p)
        sign == c # NONE /\ (c = "-" \/ c = "+")
        p1 == IF sign THEN one(s, p) ELSE p
        val == IF sign THEN <<c>> ELSE <<>>
        f == fraction(s, p1)
    IN  IF f.ok THEN Ok(Token("Exponent", val \o f.val.val), f.pos)
        ELSE Err("InvalidNumber", f.pos)

\* The exponent part of number(), val the text so far (through the fraction).
number_exponent(s, p, val) ==
    LET c == peek(s, p) IN
    IF c = "e" \/ c = "E" THEN
        LET x == exponent(s, one(s, p)) IN
        IF x.ok THEN Ok(Token("Number", Append(val, c) \o x.val.val), x.pos)
        ELSE Err("InvalidNumber", x.pos)
    ELSE Ok(Token("Number", val), p)

\* The fraction part of number(), val the text of the integer part.  Without
\* a '.' the number ends here: the exponent is looked for only after a
\* fraction.
number_fraction(s, p, val) ==
    IF peek(s, p) = "." THEN
        LET f == fraction(s, one(s, p)) IN
        IF f.ok THEN number_exponent(s, f.pos, Append(val, ".") \o f.val.val)
        ELSE Err("InvalidNumber", f.pos)
    ELSE Ok(Token("Number", val), p)

number(s, p) ==
    LET i == integer(s, p) IN
    IF i.ok THEN number_fraction(s, i.pos, i.val.val)
    ELSE Err("InvalidNumber", i.pos)

----------------------------------------------------------------------------
(* Tokenizer: literals and next() *)

boolean(s, p) ==
    LET t == eats(s, p, <<"t", "r", "u", "e">>)
        f == eats(s, t.pos, <<"f", "a", "l", "s", "e">>)
    IN  IF t.hit THEN Ok(Token("Bool", TRUE), t.pos)
        ELSE IF f.hit THEN Ok(Token("Bool", FALSE), f.pos)
        ELSE Err("InvalidToken", f.pos)

null(s, p) ==
    LET n == eats(s, p, <<"n", "u", "l", "l">>) IN
    IF n.hit THEN Ok(Null, n.pos) ELSE Err("InvalidToken", n.pos)

next(s, p) ==
    LET c == peek(s, p) IN
    CASE c = "{" -> Ok(LeftBrace, eat_one(s, p).pos)
      [] c = "}" -> Ok(RightBrace, eat_one(s, p).pos)
      [] c = "[" -> Ok(LeftBracket, eat_one(s, p).pos)
      [] c = "]" -> Ok(RightBracket, eat_one(s, p).pos)
      [] c = "," -> Ok(Comma, eat_one(s, p).pos)
      [] c = ":" -> Ok(Colon, eat_one(s, p).pos)
      [] c = QUOTE -> string(s, p)
      [] c # NONE /\ (is_digit(c) \/ c = "-") -> number(s, p)
      [] c = "t" \/ c = "f" -> boolean(s, p)
      [] c = "n" -> null(s, p)
      [] c = NONE -> Err("EOF", p)
      [] OTHER -> Err("InvalidToken", p)

----------------------------------------------------------------------------
(* Deserializer *)

\* HashMap::new()
EmptyMap == [k \in {} |-> <<>>]

\* HashMap::insert: the entry of an equal key is replaced.
insert(object, key, value) ==
    [k \in DOMAIN object \cup {key} |-> IF k = key THEN value ELSE object[k]]

\* Nothing in the code bounds the descent: each '[' or '{' inside a value
\* costs a frame of value() and one of array() or object(), and the process
\* aborts when the thread's stack has no room for the next one.  How many
\* nested calls of value() the stack holds when parse() is called is not
\* the parser's to decide: it depends on the build, on the size of the
\* thread's stack and on how much of it the caller has used (a main thread
\* of 8 MiB that calls parse() first thing holds some 21,500, the smallest
\* thread stack 50).  The model follows one small stack: a call finds
\* either room for SmallRoom nested calls, or more room than its text can
\* use (NoLimit).
SmallRoom == 8

NoLimit == -1

StackRooms == {SmallRoom, NoLimit}

\* The room left inside one more call of value().
inside(room) == IF room = NoLimit THEN NoLimit ELSE room - 1

\* The stack is exhausted at cursor p: the process aborts and the call
\* returns no Result.
Abort(p) == [ok |-> FALSE, val |-> <<>>, err |-> "StackOverflow", pos |-> p]

\* In the operators below, room is the number of nested calls of value() the
\* stack still holds, or NoLimit.
RECURSIVE value(_, _, _)
RECURSIVE object_loop(_, _, _, _)
RECURSIVE array_loop(_, _, _, _)

\* One iteration of the loop of object(); object holds the entries
\* inserted so far.  A `break` is the InvalidToken after the loop.
object_iter(s, p, object, room) ==
    LET t == next(s, eat_whitespaces(s, p).pos) IN
    IF ~t.ok THEN Leave(t)
    ELSE IF t.val.type # "String" THEN Leave(Err("InvalidToken", t.pos))
    ELSE
        LET key == t.val.val
            p2 == eat_whitespaces(s, t.pos).pos
            colon == eat_token(s, p2, Colon)
        IN  IF ~colon.hit THEN Leave(Err("InvalidToken", colon.pos))
            ELSE
                LET v == value(s, eat_whitespaces(s, colon.pos).pos, room) IN
                IF ~v.ok THEN Leave(v)
                ELSE
                    LET object2 == insert(object, key, v.val)
                        p4 == eat_whitespaces(s, v.pos).pos
                        brace == eat_token(s, p4, RightBrace)
                        comma == eat_token(s, brace.pos, Comma)
                    IN  IF brace.hit
                        THEN Leave(Ok(Value("Object", object2), brace.pos))
                        ELSE IF ~comma.hit
                        THEN Leave(Err("InvalidToken", comma.pos))
                        ELSE Again(comma.pos, object2)

\* The loop of object(): after the iteration i, its result or the next
\* iteration.
object_after(s, i, room) ==
    IF i.done THEN i.res ELSE object_loop(s, i.pos, i.acc, room)

object_loop(s, p, object, room) ==
    object_after(s, object_iter(s, p, object, room), room)

\* The empty object is looked for right after the '{', before any
\* whitespace is skipped.
object(s, p, room) ==
    LET brace == eat_token(s, p, RightBrace) IN
    IF brace.hit THEN Ok(Value("Object", EmptyMap), brace.pos)
    ELSE object_loop(s, brace.pos, EmptyMap, room)

\* An array loop that looks for the closing bracket again after a comma, as
\* array() does before the loop.
array_loop_recheck(s, p, array, room) ==
    LET p1 == eat_whitespaces(s, p).pos
        close == eat_token(s, p1, RightBracket)
        v == value(s, eat_whitespaces(s, close.pos).pos, room)
    IN  IF close.hit THEN Ok(Value("Array", array), close.pos)
        ELSE IF ~v.ok THEN v
        ELSE
            LET array2 == Append(array, v.val)
                p2 == eat_whitespaces(s, v.pos).pos
                bracket == eat_token(s, p2, RightBracket)
                comma == eat_token(s, bracket.pos, Comma)
            IN  IF bracket.hit THEN Ok(Value("Array", array2), bracket.pos)
                ELSE IF ~comma.hit THEN Err("InvalidToken", comma.pos)
                ELSE array_loop(s, comma.pos, array2, room)

\* One iteration of the loop of array(); array holds the elements pushed
\* so far.
array_iter(s, p, array, room) ==
    LET v == value(s, eat_whitespaces(s, p).pos, room) IN
    IF ~v.ok THEN Leave(v)
    ELSE
        LET array2 == Append(array, v.val)
            p2 == eat_whitespaces(s, v.pos).pos
            bracket == eat_token(s, p2, RightBracket)
            comma == eat_token(s, bracket.pos, Comma)
        IN  IF bracket.hit THEN Leave(Ok(Value("Array", array2), bracket.pos))
            ELSE IF ~comma.hit THEN Leave(Err("InvalidToken", comma.pos))
            ELSE Again(comma.pos, array2)

\* The loop of array(): after the iteration i, its result or the next
\* iteration.
array_after(s, i, room) ==
    IF i.done THEN i.res ELSE array_loop(s, i.pos, i.acc, room)

array_loop(s, p, array, room) ==
    array_after(s, array_iter(s, p, array, room), room)

array(s, p, room) ==
    LET p1 == eat_whitespaces(s, p).pos
        bracket == eat_token(s, p1, RightBracket)
    IN  IF bracket.hit THEN Ok(Value("Array", <<>>), bracket.pos)
        ELSE array_loop(s, bracket.pos, <<>>, room)

\* A call of value() for which the stack has no room left aborts; the
\* values inside an object or array have room for one nested call less.
value(s, p, room) ==
    LET t == next(s, eat_whitespaces(s, p).pos) IN
    IF room = 0 THEN Abort(p)
    ELSE IF ~t.ok THEN t
    ELSE CASE t.val.type = "LeftBrace" -> object(s, t.pos, inside(room))
           [] t.val.type = "LeftBracket" -> array(s, t.pos, inside(room))
           [] t.val.type = "String" -> Ok(Value("String", t.val.val), t.pos)
           [] t.val.type = "Number" -> Ok(Value("Number", t.val.val), t.pos)
           [] t.val.type = "Bool" -> Ok(Value("Bool", t.val.val), t.pos)
           [] t.val.type = "Null" -> Ok(Value("Null", <<>>), t.pos)
           [] OTHER -> Err("InvalidToken", t.pos)

\* parse() called with room on the stack for `room` nested calls of value().
parse(s, p, room) == value(s, p, room)

----------------------------------------------------------------------------
(* The public calls, each one action *)

\* The tokens a caller may hand to eat_token: the structural ones and one
\* that has no character.
EatTokens == {LeftBracket, RightBracket, LeftBrace, RightBrace, Comma, Colon, Null}

\* The process has not aborted.
Alive == ~(op = "parse" /\ ~ret.ok /\ ret.err = "StackOverflow")

\* Tokenizer::next
CallNext ==
    /\ Alive
    /\ ret' = next(input, chars)
    /\ chars' = ret'.pos
    /\ op' = "next"
    /\ start' = chars
    /\ UNCHANGED input

\* Tokenizer::eat_whitespaces
CallEatWhitespaces ==
    /\ Alive
    /\ ret' = eat_whitespaces(input, chars)
    /\ chars' = ret'.pos
    /\ op' = "eat_whitespaces"
    /\ start' = chars
    /\ UNCHANGED input

\* Tokenizer::eat_token
CallEatToken ==
    \E token \in EatTokens :
        /\ Alive
        /\ ret' = eat_token(input, chars, token)
        /\ chars' = ret'.pos
        /\ op' = "eat_token"
        /\ start' = chars
        /\ UNCHANGED input

\* Deserializer::parse
CallParse ==
    /\ Alive
    /\ \E room \in StackRooms : ret' = parse(input, chars, room)
    /\ chars' = ret'.pos
    /\ op' = "parse"
    /\ start' = chars
    /\ UNCHANGED input

Next == CallNext \/ CallEatWhitespaces \/ CallEatToken \/ CallParse

\* Deserializer::new / Tokenizer::new on the text s.
New(s) ==
    /\ input = s
    /\ chars = 0
    /\ op = "new"
    /\ start = 0
    /\ ret = <<>>

\* The texts of at most n characters of the alphabet A.
RECURSIVE Texts(_, _)
Texts(A, n) ==
    IF n = 0 THEN {<<>>}
    ELSE LET T == Texts(A, n - 1) IN
         T \cup {Append(t, c) : t \in {u \in T : Len(u) = n - 1}, c \in A}

----------------------------------------------------------------------------
(* Number scanning: every text of number characters *)

MaxNumLen == 5

NumChars == {"-", "0", "1", ".", "e", "E", "+"}

InitNumber == \E s \in Texts(NumChars, MaxNumLen) : New(s)

SpecNumber == InitNumber /\ [][Next]_vars

\* The last call was next() and it returned a Number token.
NumberReturned == op = "next" /\ ret.ok /\ ret.val.type = "Number"

\* The last call was parse() and it returned a Number value.
NumberParsed == op = "parse" /\ ret.ok /\ ret.val.type = "Number"

AllDigits(t) == \A i \in 1..Len(t) : t[i] \in Digits

\* The JSON grammar of a number's parts (RFC 8259, section 6).
IsInt(t) == Len(t) >= 1 /\ AllDigits(t) /\ (t[1] = "0" => Len(t) = 1)
IsFrac(t) == t = <<>> \/ (Len(t) >= 2 /\ t[1] = "." /\ AllDigits(Tail(t)))
IsExp(t) ==
    \/ t = <<>>
    \/ /\ Len(t) >= 2
       /\ t[1] \in {"e", "E"}
       /\ LET d == IF t[2] \in {"+", "-"} THEN Tail(Tail(t)) ELSE Tail(t)
          IN  Len(d) >= 1 /\ AllDigits(d)

\* t is a JSON number: [-] int [frac] [exp].
IsJsonNumber(t) ==
    \E a \in 0..1, b \in 0..Len(t), c \in 0..Len(t) :
        /\ a <= b /\ b <= c
        /\ (a = 1 => Len(t) >= 1 /\ t[1] = "-")
        /\ IsInt(SubSeq(t, a + 1, b))
        /\ IsFrac(SubSeq(t, b + 1, c))
        /\ IsExp(SubSeq(t, c + 1, Len(t)))

\* C2: the text of every Number token next() returns, and of every Number
\* value parse() returns, satisfies the JSON number grammar.
C2_NumberGrammar ==
    (NumberReturned \/ NumberParsed) => IsJsonNumber(ret.val.val)

\* C4: a Number token never stops in front of an exponent: when next()
\* returns a Number whose text is a well-formed integer part, with or
\* without a fraction, and no exponent (the scan ended after the integer
\* part or after the fraction), the character that follows it in the input
\* is not 'e' or 'E'.
C4_ExponentConsumed ==
    ( /\ NumberReturned
      /\ IsJsonNumber(ret.val.val)
      /\ \A i \in 1..Len(ret.val.val) : ret.val.val[i] \notin {"e", "E"} )
        => peek(input, chars) \notin {"e", "E"}

\* t[i] is followed by a digit in t.
DigitAfter(t, i) == i < Len(t) /\ t[i + 1] \in Digits

\* C5: next() returns no Number token in which a '.', an 'e' or 'E' with its
\* optional sign, or the leading '-' is not followed by a digit; a number
\* scan that fails fails with InvalidNumber.
C5_DigitsRequired ==
    /\ NumberReturned =>
        LET t == ret.val.val IN
        \A i \in 1..Len(t) :
            /\ t[i] = "." => DigitAfter(t, i)
            /\ t[i] \in {"e", "E"} =>
                \/ DigitAfter(t, i)
                \/ (i < Len(t) /\ t[i + 1] \in {"+", "-"} /\ DigitAfter(t, i + 1))
            /\ (t[i] = "-" /\ i = 1) => DigitAfter(t, i)
    /\ (op = "next" /\ ~ret.ok /\ peek(input, start) \in Digits \cup {"-"})
        => ret.err = "InvalidNumber"

----------------------------------------------------------------------------
(* String scanning: an opening quote and every body of string characters *)

MaxStrBody == 4

\* The quote, the backslash, the eight escape letters of string(), 'u'
\* (the escape left unimplemented) and 'a' (no escape letter).
StrChars == {QUOTE, BACKSLASH, "/", "b", "f", "n", "r", "t", "u", "a"}

InitString == \E b \in Texts(StrChars, MaxStrBody) : New(<<QUOTE>> \o b)

SpecString == InitString /\ [][Next]_vars

\* The two-character escapes of JSON (RFC 8259, section 7) and the
\* character each denotes.
JsonEscapes ==
    [c \in {QUOTE, BACKSLASH, "/", "b", "f", "n", "r", "t"} |->
        CASE c = "b" -> BS
          [] c = "f" -> FF
          [] c = "n" -> LF
          [] c = "r" -> CR
          [] c = "t" -> TAB
          [] OTHER -> c]

\* A string body read by the grammar, from s[i] on, text the characters
\* denoted so far: "closed" with the index of the closing quote,
\* "badescape" at a backslash followed by a character that is no escape,
\* "unterminated" when s ends first (inside an escape included).
RECURSIVE JsonString(_, _, _)
JsonString(s, i, text) ==
    IF i > Len(s) THEN [kind |-> "unterminated", end |-> Len(s), text |-> text]
    ELSE IF s[i] = QUOTE THEN [kind |-> "closed", end |-> i, text |-> text]
    ELSE IF s[i] # BACKSLASH THEN JsonString(s, i + 1, Append(text, s[i]))
    ELSE IF i = Len(s) THEN [kind |-> "unterminated", end |-> Len(s), text |-> text]
    ELSE IF s[i + 1] \in DOMAIN JsonEscapes
         THEN JsonString(s, i + 2, Append(text, JsonEscapes[s[i + 1]]))
         ELSE [kind |-> "badescape", end |-> i + 1, text |-> text]

\* The last call was next() with the cursor on a quote.
StringScanned == op = "next" /\ peek(input, start) = QUOTE

\* C6: when the input ends before the closing quote of the string next()
\* scans, with no invalid escape before the end, next() fails with EOF.
C6_UnterminatedEOF ==
    (StringScanned /\ JsonString(input, start + 2, <<>>).kind = "unterminated")
        => (~ret.ok /\ ret.err = "EOF")

\* C7: next() on a terminated string literal returns the String token of
\* the characters its body denotes (each escape its one character, every
\* other character itself, the quotes left out) and stops behind the closing
\* quote; on a backslash followed by any other character it fails with
\* InvalidEscapeChar.
C7_EscapesResolved ==
    StringScanned =>
        LET j == JsonString(input, start + 2, <<>>) IN
        /\ j.kind = "closed" =>
            (ret.ok /\ ret.val = Token("String", j.text) /\ chars = j.end)
        /\ j.kind = "badescape" => (~ret.ok /\ ret.err = "InvalidEscapeChar")

\* next() returned a String of an escaped control character next to a
\* character copied verbatim.
C7_Witness ==
    /\ StringScanned /\ ret.ok /\ ret.val.type = "String"
    /\ \E i \in 1..Len(ret.val.val) : ret.val.val[i] \in {BS, FF, LF, CR, TAB}
    /\ \E i \in 1..Len(ret.val.val) : ret.val.val[i] = "a"

----------------------------------------------------------------------------
(* Literal scanning: every prefix of a literal, followed by any short tail *)

MaxLitTail == 2

LitChars == {"t", "r", "u", "e", "f", "a", "l", "s", "n", " "}

\* The three literals and the token of each.
Literals ==
    { [text |-> <<"t", "r", "u", "e">>, token |-> Token("Bool", TRUE)],
      [text |-> <<"f", "a", "l", "s", "e">>, token |-> Token("Bool", FALSE)],
      [text |-> <<"n", "u", "l", "l">>, token |-> Null] }

InitLiteral ==
    \E l \in Literals, tail \in Texts(LitChars, MaxLitTail) :
        \E k \in 0..Len(l.text) : New(SubSeq(l.text, 1, k) \o tail)

SpecLiteral == InitLiteral /\ [][Next]_vars

\* The text s reads w from cursor p on.
StartsWith(s, p, w) == p + Len(w) <= Len(s) /\ SubSeq(s, p + 1, p + Len(w)) = w

\* The last call was next() with the cursor on 't', 'f' or 'n'.
LiteralScanned == op = "next" /\ peek(input, start) \in {"t", "f", "n"}

\* C10: next() on 't', 'f' or 'n' either finds the whole of true, false or
\* null, returns its token and has consumed exactly its characters, or
\* fails with InvalidToken with the cursor where it was before the call.
C10_AllOrNothing ==
    LiteralScanned =>
        IF \E l \in Literals : StartsWith(input, start, l.text)
        THEN \A l \in Literals :
                StartsWith(input, start, l.text) =>
                    /\ ret.ok
                    /\ ret.val.type = l.token.type
                    /\ ret.val.val = l.token.val
                    /\ chars = start + Len(l.text)
        ELSE ~ret.ok /\ ret.err = "InvalidToken" /\ chars = start

\* next() failed on a text that spells a literal but for its last
\* character, and consumed nothing.
C10_Witness ==
    /\ LiteralScanned /\ ~ret.ok /\ chars = start
    /\ \E l \in Literals :
        /\ StartsWith(input, start, SubSeq(l.text, 1, Len(l.text) - 1))
        /\ ~StartsWith(input, start, l.text)

----------------------------------------------------------------------------
(* Documents: object and array literals, laid out with and without         *)
(* whitespace and with and without a trailing comma                        *)

MaxItems == 2

\* A document is a scalar (a number or a string, text its characters) or a
\* container (items its elements or members, key the member's key).
Scalar(kind, text) == [kind |-> kind, text |-> text, items |-> <<>>]
Container(kind, items) == [kind |-> kind, text |-> <<>>, items |-> items]
Item(key, doc) == [key |-> key, val |-> doc]

\* The sequences of at most n elements of S.
RECURSIVE SeqsUpTo(_, _)
SeqsUpTo(S, n) ==
    IF n = 0 THEN {<<>>}
    ELSE LET T == SeqsUpTo(S, n - 1) IN
         T \cup {Append(t, x) : t \in {u \in T : Len(u) = n - 1}, x \in S}

Scalars == {Scalar("number", <<"1">>), Scalar("string", <<"a">>)}

Keys == {<<"a">>, <<"b">>}

\* The containers nested in a document: empty, or of one number.
InnerContainers ==
    { Container("array", <<>>),
      Container("object", <<>>),
      Container("array", <<Item(<<>>, Scalar("number", <<"1">>))>>),
      Container("object", <<Item(<<"a">>, Scalar("number", <<"1">>))>>) }

\* The arrays and objects of at most MaxItems scalars and inner containers.
Docs ==
    {Container("array", e) :
        e \in SeqsUpTo({Item(<<>>, d) : d \in Scalars \cup InnerContainers}, MaxItems)}
    \cup
    {Container("object", m) :
        m \in SeqsUpTo({Item(k, d) : k \in Keys, d \in Scalars \cup InnerContainers},
                       MaxItems)}

RECURSIVE Text(_, _, _, _)
\* The items of container d from the i-th on, each followed by a comma or,
\* for the last, by the trailing comma if the layout asks for one.
RECURSIVE ItemsText(_, _, _, _, _)
ItemsText(d, i, pad, trail, depth) ==
    IF i > Len(d.items) THEN <<>>
    ELSE
        LET key == IF d.kind = "object"
                   THEN <<QUOTE>> \o d.items[i].key \o <<QUOTE>> \o pad \o <<":">> \o pad
                   ELSE <<>>
            here == (trail = "outer" /\ depth = 0) \/ (trail = "inner" /\ depth = 1)
            sep == IF i < Len(d.items) \/ here THEN <<",">> \o pad ELSE <<>>
        IN  key \o Text(d.items[i].val, pad, trail, depth + 1) \o pad \o sep
            \o ItemsText(d, i + 1, pad, trail, depth)

\* The text of document d at nesting depth `depth` in the layout (pad, trail).
Text(d, pad, trail, depth) ==
    CASE d.kind = "number" -> d.text
      [] d.kind = "string" -> <<QUOTE>> \o d.text \o <<QUOTE>>
      [] d.kind = "array" -> <<"[">> \o pad \o ItemsText(d, 1, pad, trail, depth) \o <<"]">>
      [] d.kind = "object" -> <<"{">> \o pad \o ItemsText(d, 1, pad, trail, depth) \o <<"}">>

\* The whitespace a layout puts at every token boundary: none, a space, or
\* the other three whitespace characters.
Pads == {<<>>, <<" ">>, <<CR, LF, TAB>>}

\* The layouts of the documents with a pad of P and a trailing comma as T
\* says ("none": nowhere; "outer": in the outer container; "inner": in the
\* containers nested in it; an empty container gets none): the text, the
\* document and the layout.
Layouts(P, T) ==
    { [text |-> pad \o Text(d, pad, trail, 0), doc |-> d, pad |-> pad, trail |-> trail] :
        d \in Docs, pad \in P, trail \in T }

\* The well-formed layouts.
DocLayouts == Layouts(Pads, {"none"})

InitDoc == \E l \in DocLayouts : New(l.text)

SpecDoc == InitDoc /\ [][Next]_vars

\* The layouts with a trailing comma.
TrailingLayouts == Layouts({<<>>, <<" ">>}, {"outer", "inner"})

InitTrailing == \E l \in TrailingLayouts : New(l.text)

SpecTrailing == InitTrailing /\ [][Next]_vars

----------------------------------------------------------------------------
(* parse() on the documents *)

\* The last call was parse() on a fresh Deserializer.
ParsedWhole == op = "parse" /\ start = 0

\* The keys of object document d, and the index of the last member with key k.
KeysOf(d) == {d.items[i].key : i \in 1..Len(d.items)}
LastIndex(d, k) ==
    CHOOSE i \in 1..Len(d.items) :
        /\ d.items[i].key = k
        /\ \A j \in (i + 1)..Len(d.items) : d.items[j].key # k

\* The value document d denotes (a repeated key denotes its last value).
RECURSIVE TreeOf(_)
TreeOf(d) ==
    CASE d.kind = "number" -> Value("Number", d.text)
      [] d.kind = "string" -> Value("String", d.text)
      [] d.kind = "array" ->
            Value("Array", [i \in 1..Len(d.items) |-> TreeOf(d.items[i].val)])
      [] d.kind = "object" ->
            Value("Object", [k \in KeysOf(d) |-> TreeOf(d.items[LastIndex(d, k)].val)])

\* Value v has the shape of document d: the same nesting, the same key set
\* in every object, the same element count and order in every array.
RECURSIVE SameShape(_, _)
SameShape(v, d) ==
    CASE d.kind = "number" -> v.type = "Number"
      [] d.kind = "string" -> v.type = "String"
      [] d.kind = "array" ->
            /\ v.type = "Array"
            /\ Len(v.val) = Len(d.items)
            /\ \A i \in 1..Len(d.items) : SameShape(v.val[i], d.items[i].val)
      [] d.kind = "object" ->
            /\ v.type = "Object"
            /\ DOMAIN v.val = KeysOf(d)
            /\ \A k \in KeysOf(d) :
                \E i \in 1..Len(d.items) :
                    d.items[i].key = k /\ SameShape(v.val[k], d.items[i].val)

\* C1: parse() on any layout of a well-formed object or array literal
\* returns Ok(Some(tree)), the tree of the literal's shape.
C1_RoundTripShape ==
    ParsedWhole =>
        \A l \in DocLayouts :
            l.text = input => (ret.ok /\ SameShape(ret.val, l.doc))

\* C3: parse() returns on a layout with whitespace at every token boundary
\* what it returns on the same tokens with no whitespace at all.
C3_WhitespaceInvariant ==
    ParsedWhole =>
        \A l \in DocLayouts :
            l.text = input =>
                LET r == parse(Text(l.doc, <<>>, "none", 0), 0, NoLimit) IN
                /\ ret.ok = r.ok
                /\ ret.err = r.err
                /\ ret.ok => ret.val = r.val

\* C9: parse() on an object literal that repeats a key succeeds, with one
\* entry per distinct key, each key mapped to the value of its last
\* occurrence.
C9_LastKeyWins ==
    ParsedWhole =>
        \A l \in DocLayouts :
            ( /\ l.text = input
              /\ l.doc.kind = "object"
              /\ Cardinality(KeysOf(l.doc)) < Len(l.doc.items) )
            =>  /\ ret.ok
                /\ ret.val.type = "Object"
                /\ DOMAIN ret.val.val = KeysOf(l.doc)
                /\ \A k \in KeysOf(l.doc) :
                    ret.val.val[k] = TreeOf(l.doc.items[LastIndex(l.doc, k)].val)

Whitespace == {" ", LF, CR, TAB}

\* The text s holds a ',' followed, after optional whitespace, by '}' or ']'
\* (no string of the documents holds any of these characters).
TrailingCommaIn(s) ==
    \E i \in 1..Len(s) :
        /\ s[i] = ","
        /\ \E j \in (i + 1)..Len(s) :
            /\ s[j] \in {"}", "]"}
            /\ \A k \in (i + 1)..(j - 1) : s[k] \in Whitespace

\* C8: parse() on an object or array literal with a trailing comma, in the
\* outer container or in a nested one, with or without whitespace before the
\* closing '}' or ']', returns Err(InvalidToken).
C8_TrailingCommaRejected ==
    (ParsedWhole /\ TrailingCommaIn(input)) => (~ret.ok /\ ret.err = "InvalidToken")

\* parse() failed on an object whose last member is followed by a comma, a
\* space and '}'.
C8_Witness ==
    /\ ParsedWhole /\ ~ret.ok
    /\ \E i \in 1..Len(input) :
        i + 2 <= Len(input) /\ input[i] = "," /\ input[i + 1] = " " /\ input[i + 2] = "}"

----------------------------------------------------------------------------
(* Token streams: well-formed tokens separated by optional whitespace *)

MaxToks == 3

\* The lexemes of the streams and the token each one denotes: the six
\* structural characters, a string, an integer, a number with an exponent
\* and two literals.
Lexemes ==
    { [text |-> <<"{">>, token |-> LeftBrace],
      [text |-> <<"}">>, token |-> RightBrace],
      [text |-> <<"[">>, token |-> LeftBracket],
      [text |-> <<"]">>, token |-> RightBracket],
      [text |-> <<",">>, token |-> Comma],
      [text |-> <<":">>, token |-> Colon],
      [text |-> <<QUOTE, "a", QUOTE>>, token |-> Token("String", <<"a">>)],
      [text |-> <<"1">>, token |-> Token("Number", <<"1">>)],
      [text |-> <<"1", "e", "1">>, token |-> Token("Number", <<"1", "e", "1">>)],
      [text |-> <<"t", "r", "u", "e">>, token |-> Token("Bool", TRUE)],
      [text |-> <<"n", "u", "l", "l">>, token |-> Null] }

\* The whitespace after the k-th lexeme of ls: the pad, and one space where
\* the pad is empty and two numbers would run into each other.
Gap(ls, pad, k) ==
    IF /\ pad = <<>>
       /\ k < Len(ls)
       /\ ls[k].token.type = "Number"
       /\ ls[k + 1].token.type = "Number"
    THEN <<" ">>
    ELSE pad

\* The cursor behind the k-th lexeme of ls and the whitespace after it.
RECURSIVE GapEnd(_, _, _)
GapEnd(ls, pad, k) ==
    IF k = 0 THEN 0
    ELSE GapEnd(ls, pad, k - 1) + Len(ls[k].text) + Len(Gap(ls, pad, k))

\* The cursor in front of and behind the k-th lexeme of ls.
TokenBegin(ls, pad, k) == GapEnd(ls, pad, k - 1)
TokenEnd(ls, pad, k) == GapEnd(ls, pad, k - 1) + Len(ls[k].text)

\* The text of the first k lexemes of ls, each followed by its whitespace.
RECURSIVE StreamText(_, _, _)
StreamText(ls, pad, k) ==
    IF k = 0 THEN <<>>
    ELSE StreamText(ls, pad, k - 1) \o ls[k].text \o Gap(ls, pad, k)

\* The streams of at most MaxToks lexemes: the lexemes, the pad and the text.
TokenStreams ==
    { [toks |-> ls, pad |-> pad, text |-> StreamText(ls, pad, Len(ls))] :
        ls \in SeqsUpTo(Lexemes, MaxToks), pad \in {<<>>, <<" ">>} }

InitTokens == \E st \in TokenStreams : New(st.text)

SpecTokens == InitTokens /\ [][Next]_vars

\* C11: on a stream of well-formed tokens separated by optional whitespace,
\* eat_whitespaces() at the end of a token moves the cursor to the start of
\* the next token, next() at the start of a token returns that token with
\* the cursor exactly at its end (not in the whitespace or the token after
\* it), and next() once every token has been consumed fails with EOF.
C11_TokensInOrder ==
    \A st \in TokenStreams :
        st.text = input =>
            /\ \A k \in 1..Len(st.toks) :
                   (op = "eat_whitespaces" /\ start = TokenEnd(st.toks, st.pad, k))
                       => chars = GapEnd(st.toks, st.pad, k)
            /\ \A k \in 1..Len(st.toks) :
                   (op = "next" /\ start = TokenBegin(st.toks, st.pad, k))
                       => /\ ret = Ok(st.toks[k].token, TokenEnd(st.toks, st.pad, k))
                          /\ chars = TokenEnd(st.toks, st.pad, k)
            /\ (op = "next" /\ start = Len(input))
                   => (ret = Err("EOF", Len(input)) /\ chars = Len(input))

----------------------------------------------------------------------------
(* Termination: the loops of the tokenizer and of the deserializer *)

MaxRunLen == 3

\* Characters that reach the loops of the tokenizer and the ways out of
\* them: string, escape, digits, fraction, exponent, whitespace, array and
\* separator.
RunChars == {QUOTE, BACKSLASH, "1", ".", "e", " ", "[", ","}

\* The well-formed documents whose items after the first are scalars, with
\* one space at every token boundary.
RunLayouts ==
    { l \in Layouts({<<" ">>}, {"none"}) :
        \A i \in 2..Len(l.doc.items) : l.doc.items[i].val \in Scalars }

\* The unclosed runs of '[' about as deep as the small stack.
DeepTexts == { [i \in 1..n |-> "["] : n \in (SmallRoom - 1)..(SmallRoom + 1) }

\* A document, any text of at most MaxRunLen of the characters above, or a
\* deep run of '['.
InitRun ==
    \/ \E l \in RunLayouts : New(l.text)
    \/ \E s \in Texts(RunChars, MaxRunLen) : New(s)
    \/ \E s \in DeepTexts : New(s)

SpecRun == InitRun /\ [][Next]_vars

Loops == {"whitespace", "string", "integer", "fraction", "object", "array"}

\* One iteration of the named loop at cursor p, the loop's local state
\* being acc.
Iter(loop, s, p, acc) ==
    CASE loop = "whitespace" ->
             LET w == eat_whitespace(s, p) IN
             IF w.hit THEN Again(w.pos, acc) ELSE Leave(w)
      [] loop = "string" -> string_iter(s, p, acc)
      [] loop = "integer" -> integer_iter(s, p, acc)
      [] loop = "fraction" -> fraction_iter(s, p, acc)
      [] loop = "object" -> object_iter(s, p, acc, NoLimit)
      [] loop = "array" -> array_iter(s, p, acc, NoLimit)

\* The local state a loop is entered with.
Entry(loop) == IF loop = "object" THEN EmptyMap ELSE <<>>

\* The number of iterations the named loop runs from cursor p until it is
\* left.
RECURSIVE Rounds(_, _, _, _)
Rounds(loop, s, p, acc) ==
    LET i == Iter(loop, s, p, acc) IN
    IF i.done THEN 1 ELSE 1 + Rounds(loop, s, i.pos, i.acc)

\* An iteration of the loop at cursor p leaves the loop or consumes a
\* character, and the cursor never moves backwards or past the end.
Progress(loop, s, p) ==
    LET i == Iter(loop, s, p, Entry(loop)) IN
    /\ i.pos >= p
    /\ i.pos <= Len(s)
    /\ i.done \/ i.pos > p

ErrorNames ==
    {"EOF", "InvalidEscapeChar", "InvalidString", "InvalidNumber", "InvalidToken"}

\* C12: parse() returns, with Ok(Some(value)) or Err, on every text; every
\* call leaves the cursor at or behind where it found it; and at every
\* cursor a call passed,
\* an iteration of the whitespace, string, digit, object and array loops
\* leaves the loop or consumes a character, so that each loop runs at most
\* one iteration per remaining character and one more.
C12_Terminates ==
    /\ start <= chars /\ chars <= Len(input)
    /\ op = "parse" =>
           \/ ret.ok /\ ret.val.type \in {"Object", "Array", "String", "Number", "Bool", "Null"}
           \/ ~ret.ok /\ ret.err \in ErrorNames
    /\ \A p \in start..chars :
           /\ Progress("whitespace", input, p)
           /\ Progress("string", input, p)
           /\ Progress("integer", input, p)
           /\ Progress("fraction", input, p)
           /\ Progress("object", input, p)
           /\ Progress("array", input, p)
           /\ \A loop \in Loops :
                  Rounds(loop, input, p, Entry(loop)) <= Len(input) - p + 1

====
